---- MODULE Spec2Model ----
(***************************************************************************)
(* Model of the MCP router (mcp_framework/core/router.py) and of the       *)
(* request fields it reads (mcp_framework/core/protocol.py).               *)
(*                                                                         *)
(* A request's content is represented by its length, the only property of  *)
(* the content the router reads (len(request.content)).  An Optional[int]  *)
(* is a sequence: <<>> for None, <<n>> for the integer n.  An              *)
(* Optional[ModelType] is a ModelType tag or None.                         *)
(***************************************************************************)
EXTENDS Integers, Sequences, FiniteSets, TLC

\* ------------------------------------------------------------------ bounds
\* content lengths explored on each side of the extraction threshold
LenDelta == 1
\* max_tokens values explored on each side of every context window
TokDelta == 1

\* ------------------------------------------------------------- enumerations
None == "None"

GPT4            == "gpt-4"
GPT35_TURBO     == "gpt-3.5-turbo"
CLAUDE_3_OPUS   == "claude-3-opus"
CLAUDE_3_SONNET == "claude-3-sonnet"
GEMINI_PRO      == "gemini-pro"
EMBEDDING_MODEL == "text-embedding-3-small"

ModelType ==
  {GPT4, GPT35_TURBO, CLAUDE_3_OPUS, CLAUDE_3_SONNET, GEMINI_PRO, EMBEDDING_MODEL}

CREATIVE       == "creative"
REASONING      == "reasoning"
CLASSIFICATION == "classification"
EXTRACTION     == "extraction"
SUMMARIZATION  == "summarization"
EMBEDDING      == "embedding"
GENERAL        == "general"

TaskType ==
  {CREATIVE, REASONING, CLASSIFICATION, EXTRACTION, SUMMARIZATION, EMBEDDING, GENERAL}

\* a value that is not a member of ModelType (a key model_health never holds)
UNKNOWN_MODEL == "unknown-model"

\* ------------------------------------------------------- capability matrix
MODEL_CAPABILITIES ==
  [m \in ModelType |->
     CASE m = GPT4 ->
            [tasks |-> {CREATIVE, REASONING, SUMMARIZATION, GENERAL},
             context_window |-> 128000]
       [] m = GPT35_TURBO ->
            [tasks |-> {CLASSIFICATION, EXTRACTION, GENERAL},
             context_window |-> 16384]
       [] m = CLAUDE_3_OPUS ->
            [tasks |-> {REASONING, CREATIVE, SUMMARIZATION},
             context_window |-> 200000]
       [] m = CLAUDE_3_SONNET ->
            [tasks |-> {CLASSIFICATION, EXTRACTION, REASONING},
             context_window |-> 200000]
       [] m = GEMINI_PRO ->
            [tasks |-> {CREATIVE, REASONING, GENERAL},
             context_window |-> 1000000]
       [] m = EMBEDDING_MODEL ->
            [tasks |-> {EMBEDDING},
             context_window |-> 8191]]

\* the length above which _intelligent_selection calls extraction content long
LONG_CONTENT == 2000

\* ------------------------------------------------------------------ request
\* MCPRequest, restricted to the fields the router and the validator read
DefaultRequest ==
  [content_len |-> 0, task_type |-> GENERAL, model |-> None,
   require_reasoning |-> FALSE, require_creativity |-> FALSE,
   max_tokens |-> <<>>]

\* Python truthiness of an Optional[int]: None and 0 are falsy
Truthy(opt) == opt # <<>> /\ opt[1] # 0

\* an optional object (a context reference, a returned value, a raised error)
\* is a sequence like an Optional[int]: <<>> for None, <<x>> for x
Absent == <<>>

Some(x) == <<x>>

VARIABLES
  model_health,  \* MCPRouter.model_health : ModelType -> bool
  req,           \* the MCPRequest the caller holds
  call,          \* the last call: its name, argument and return value
  lastMark,      \* history: the most recent mark on each backend
  stats_task,    \* a get_model_stats call another thread may interleave with
  contexts,      \* the MCPContext objects created so far, by reference
  router_instance, \* the module global _router_instance: a reference or None
  routers,       \* the MCPRouter objects get_router created, by reference
  threads,       \* the threads calling get_router: position and locals
  selections,    \* history: the select_model calls made with req, in order
  retry,         \* a caller's retry loop over the router: position and locals
  agent,         \* a BaseAgent object
  tasks          \* the asyncio tasks using the agent: open blocks, exception

vars ==
  <<model_health, req, call, lastMark, stats_task, contexts,
    router_instance, routers, threads, selections, retry, agent, tasks>>

\* the callers of the router and the agent they run
callers == <<selections, retry, agent, tasks>>

\* the state outside the router object the call is made on
others ==
  <<stats_task, contexts, router_instance, routers, threads, callers>>

\* the tasks that use the agent
Tasks == {"a", "b"}

RetryIdle ==
  [pc |-> "idle", current |-> <<>>, offered_healthy |-> FALSE,
   fallback |-> "unset", tried |-> <<>>]

\* BaseAgent.__init__ with its defaults
AgentInit ==
  [name |-> "unnamed_agent", llm_client |-> <<>>, initialized |-> FALSE]

TasksIdle == [t \in Tasks |-> [depth |-> 0, raising |-> FALSE]]

\* the threads that call get_router
Threads == {"t1", "t2"}

StatsIdle == [pc |-> "idle", i |-> 0, healthy_count |-> 0, status |-> <<>>]

ThreadsIdle ==
  [t \in Threads |-> [pc |-> "idle", local |-> Absent, handle |-> Absent]]

\* no get_model_stats call in progress, no context and no global router yet
OthersInit ==
  /\ stats_task = StatsIdle
  /\ contexts = <<>>
  /\ router_instance = Absent
  /\ routers = <<>>
  /\ threads = ThreadsIdle
  /\ selections = <<>>
  /\ retry = RetryIdle
  /\ agent = AgentInit
  /\ tasks = TasksIdle

\* ------------------------------------------------------------ health reads
is_model_healthy(health, model) ==
  IF model \in DOMAIN health THEN health[model] ELSE FALSE

\* --------------------------------------------------------------- selection
\* variant: the reasoning requirement is tested before the creativity one
intelligent_selection_reasoning_first(request) ==
  IF request.require_reasoning THEN CLAUDE_3_OPUS
  ELSE IF request.require_creativity THEN GPT4
  ELSE IF request.task_type = CREATIVE THEN GPT4
  ELSE IF request.task_type = REASONING THEN CLAUDE_3_OPUS
  ELSE IF request.task_type = CLASSIFICATION THEN GPT35_TURBO
  ELSE IF request.task_type = EXTRACTION THEN
         IF request.content_len > LONG_CONTENT THEN CLAUDE_3_SONNET
         ELSE GPT35_TURBO
  ELSE IF request.task_type = SUMMARIZATION THEN GEMINI_PRO
  ELSE GPT35_TURBO

\* variant: extraction content of exactly LONG_CONTENT characters is long
intelligent_selection_long_at_threshold(request) ==
  IF request.require_creativity THEN GPT4
  ELSE IF request.require_reasoning THEN CLAUDE_3_OPUS
  ELSE IF request.task_type = CREATIVE THEN GPT4
  ELSE IF request.task_type = REASONING THEN CLAUDE_3_OPUS
  ELSE IF request.task_type = CLASSIFICATION THEN GPT35_TURBO
  ELSE IF request.task_type = EXTRACTION THEN
         IF request.content_len >= LONG_CONTENT THEN CLAUDE_3_SONNET
         ELSE GPT35_TURBO
  ELSE IF request.task_type = SUMMARIZATION THEN GEMINI_PRO
  ELSE GPT35_TURBO

intelligent_selection(request) ==
  IF request.require_creativity THEN GPT4
  ELSE IF request.require_reasoning THEN CLAUDE_3_OPUS
  ELSE IF request.task_type = CREATIVE THEN GPT4
  ELSE IF request.task_type = REASONING THEN CLAUDE_3_OPUS
  ELSE IF request.task_type = CLASSIFICATION THEN GPT35_TURBO
  ELSE IF request.task_type = EXTRACTION THEN
         IF request.content_len > LONG_CONTENT THEN CLAUDE_3_SONNET
         ELSE GPT35_TURBO
  ELSE IF request.task_type = SUMMARIZATION THEN GEMINI_PRO
  ELSE GPT35_TURBO

\* variant: the embedding test is missing
select_model_no_embedding_rule(health, request) ==
  IF request.model # None /\ is_model_healthy(health, request.model)
    THEN request.model
  ELSE intelligent_selection(request)

\* variant: the embedding test comes before the override test
select_model_embedding_first(health, request) ==
  IF request.task_type = EMBEDDING THEN EMBEDDING_MODEL
  ELSE IF request.model # None /\ is_model_healthy(health, request.model)
    THEN request.model
  ELSE intelligent_selection(request)

\* variant: the override is used without the health test
select_model_override_unchecked(health, request) ==
  IF request.model # None THEN request.model
  ELSE IF request.task_type = EMBEDDING THEN EMBEDDING_MODEL
  ELSE intelligent_selection(request)

\* variant: an unhealthy heuristic choice is replaced by the general backend
select_model_skips_unhealthy(health, request) ==
  IF request.model # None /\ is_model_healthy(health, request.model)
    THEN request.model
  ELSE IF request.task_type = EMBEDDING THEN EMBEDDING_MODEL
  ELSE IF is_model_healthy(health, intelligent_selection(request))
    THEN intelligent_selection(request)
  ELSE GPT35_TURBO

select_model(health, request) ==
  IF request.model # None /\ is_model_healthy(health, request.model)
    THEN request.model
  ELSE IF request.task_type = EMBEDDING THEN EMBEDDING_MODEL
  ELSE intelligent_selection(request)

\* ---------------------------------------------------------------- fallback
fallback_map ==
  [m \in ModelType |->
     CASE m = GPT4            -> CLAUDE_3_OPUS
       [] m = GPT35_TURBO     -> CLAUDE_3_SONNET
       [] m = CLAUDE_3_OPUS   -> GPT4
       [] m = CLAUDE_3_SONNET -> GPT35_TURBO
       [] m = GEMINI_PRO      -> GPT4
       [] m = EMBEDDING_MODEL -> None]

\* fallback_map.get(primary_model): None for a key the map does not hold
fallback_of(primary_model) ==
  IF primary_model \in DOMAIN fallback_map THEN fallback_map[primary_model]
  ELSE None

\* variant: an unhealthy alternate is replaced by its own alternate
get_fallback_model_chained(health, primary_model) ==
  LET fallback == fallback_of(primary_model)
      second   == fallback_of(fallback)
  IN  IF fallback # None /\ is_model_healthy(health, fallback) THEN fallback
      ELSE IF second # None /\ second # primary_model
              /\ is_model_healthy(health, second) THEN second
      ELSE None

\* variant: the alternate is returned without the health test
get_fallback_model_health_unchecked(health, primary_model) ==
  fallback_of(primary_model)

get_fallback_model(health, primary_model) ==
  LET fallback == fallback_of(primary_model)
  IN  IF fallback # None /\ is_model_healthy(health, fallback) THEN fallback
      ELSE None

\* -------------------------------------------------------------- validation
REASON_UNHEALTHY == "Selected model is unhealthy"
REASON_UNKNOWN   == "Unknown model"
REASON_CONTEXT   == "Request max_tokens exceeds context window"

\* variant: max_tokens equal to the context window is rejected
validate_routing_decision_window_exclusive(health, request, selected_model) ==
  IF ~is_model_healthy(health, selected_model)
    THEN <<FALSE, REASON_UNHEALTHY>>
  ELSE IF selected_model \notin DOMAIN MODEL_CAPABILITIES
    THEN <<FALSE, REASON_UNKNOWN>>
  ELSE IF Truthy(request.max_tokens)
          /\ request.max_tokens[1] >= MODEL_CAPABILITIES[selected_model].context_window
    THEN <<FALSE, REASON_CONTEXT>>
  ELSE <<TRUE, None>>

\* variant: the health test is missing
validate_routing_decision_no_health_test(health, request, selected_model) ==
  IF selected_model \notin DOMAIN MODEL_CAPABILITIES
    THEN <<FALSE, REASON_UNKNOWN>>
  ELSE IF Truthy(request.max_tokens)
          /\ request.max_tokens[1] > MODEL_CAPABILITIES[selected_model].context_window
    THEN <<FALSE, REASON_CONTEXT>>
  ELSE <<TRUE, None>>

\* variant: a task type outside the backend's task list is rejected
validate_routing_decision_strict_tasks(health, request, selected_model) ==
  IF ~is_model_healthy(health, selected_model)
    THEN <<FALSE, REASON_UNHEALTHY>>
  ELSE IF selected_model \notin DOMAIN MODEL_CAPABILITIES
    THEN <<FALSE, REASON_UNKNOWN>>
  ELSE IF request.task_type \notin MODEL_CAPABILITIES[selected_model].tasks
    THEN <<FALSE, "Model does not support task">>
  ELSE IF Truthy(request.max_tokens)
          /\ request.max_tokens[1] > MODEL_CAPABILITIES[selected_model].context_window
    THEN <<FALSE, REASON_CONTEXT>>
  ELSE <<TRUE, None>>

validate_routing_decision(health, request, selected_model) ==
  IF ~is_model_healthy(health, selected_model)
    THEN <<FALSE, REASON_UNHEALTHY>>
  ELSE IF selected_model \notin DOMAIN MODEL_CAPABILITIES
    THEN <<FALSE, REASON_UNKNOWN>>
  ELSE IF Truthy(request.max_tokens)
          /\ request.max_tokens[1] > MODEL_CAPABILITIES[selected_model].context_window
    THEN <<FALSE, REASON_CONTEXT>>
  ELSE <<TRUE, None>>

\* ------------------------------------------------------------ health writes
\* variant: the write flips the flag instead of clearing it
set_unhealthy_toggle(health, model) == [health EXCEPT ![model] = ~@]

set_unhealthy(health, model) == [health EXCEPT ![model] = FALSE]

set_healthy(health, model) == [health EXCEPT ![model] = TRUE]

\* ------------------------------------------------------------------- stats
\* sum(1 for h in self.model_health.values() if h)
healthy_count_of(health) == Cardinality({m \in DOMAIN health : health[m]})

\* the model_status dictionary of get_model_stats
model_status_of(health) ==
  [m \in DOMAIN health |-> IF health[m] THEN "healthy" ELSE "unhealthy"]

\* variant: unhealthy_models repeats the healthy count
get_model_stats_unhealthy_miscounted(health) ==
  [total_models     |-> Cardinality(DOMAIN health),
   healthy_models   |-> healthy_count_of(health),
   unhealthy_models |-> healthy_count_of(health),
   model_status     |-> model_status_of(health)]

get_model_stats(health) ==
  [total_models     |-> Cardinality(DOMAIN health),
   healthy_models   |-> healthy_count_of(health),
   unhealthy_models |-> Cardinality(DOMAIN health) - healthy_count_of(health),
   model_status     |-> model_status_of(health)]

\* ----------------------------------------------------------------- actions
NoCall == [op |-> "init", arg |-> None, ret |-> None]

\* MCPRouter.__init__
RouterInit == model_health = [m \in ModelType |-> TRUE]

mark_model_unhealthy(model) ==
  /\ model_health' = set_unhealthy(model_health, model)
  /\ call' = [op |-> "mark_model_unhealthy", arg |-> model, ret |-> None]
  /\ UNCHANGED req
  /\ UNCHANGED others

mark_model_healthy(model) ==
  /\ model_health' = set_healthy(model_health, model)
  /\ call' = [op |-> "mark_model_healthy", arg |-> model, ret |-> None]
  /\ UNCHANGED req
  /\ UNCHANGED others

IsModelHealthy(model) ==
  /\ call' = [op |-> "is_model_healthy", arg |-> model,
              ret |-> is_model_healthy(model_health, model)]
  /\ UNCHANGED <<model_health, req, lastMark>>
  /\ UNCHANGED others

SelectModel ==
  /\ call' = [op |-> "select_model", arg |-> None,
              ret |-> select_model(model_health, req)]
  /\ UNCHANGED <<model_health, req, lastMark>>
  /\ UNCHANGED others

\* variant: asking for a fallback marks the failed backend unhealthy
GetFallbackModel_marks_primary(primary_model) ==
  /\ call' = [op |-> "get_fallback_model", arg |-> primary_model,
              ret |-> get_fallback_model(model_health, primary_model)]
  /\ model_health' = set_unhealthy(model_health, primary_model)
  /\ UNCHANGED <<req, lastMark>>
  /\ UNCHANGED others

GetFallbackModel(primary_model) ==
  /\ call' = [op |-> "get_fallback_model", arg |-> primary_model,
              ret |-> get_fallback_model(model_health, primary_model)]
  /\ UNCHANGED <<model_health, req, lastMark>>
  /\ UNCHANGED others

ValidateRoutingDecision(selected_model) ==
  /\ call' = [op |-> "validate_routing_decision", arg |-> selected_model,
              ret |-> validate_routing_decision(model_health, req, selected_model)]
  /\ UNCHANGED <<model_health, req, lastMark>>
  /\ UNCHANGED others

GetModelStats ==
  /\ call' = [op |-> "get_model_stats", arg |-> None,
              ret |-> get_model_stats(model_health)]
  /\ UNCHANGED <<model_health, req, lastMark>>
  /\ UNCHANGED others

\* the marks of a specification that keeps no history of them
MarkUnhealthy == \E m \in ModelType : mark_model_unhealthy(m) /\ UNCHANGED lastMark

MarkHealthy == \E m \in ModelType : mark_model_healthy(m) /\ UNCHANGED lastMark

NoHistory == [m \in ModelType |-> "never"]

\* ---------------------------------------------- specification: selection
ContentLens ==
  {0, 500, 2500} \cup ((LONG_CONTENT - LenDelta) .. (LONG_CONTENT + LenDelta))

SelectRequests ==
  [content_len : ContentLens, task_type : TaskType,
   model : ModelType \cup {None},
   require_reasoning : BOOLEAN, require_creativity : BOOLEAN,
   max_tokens : {<<>>}]

Init ==
  /\ RouterInit
  /\ req \in SelectRequests
  /\ call = NoCall
  /\ lastMark = NoHistory
  /\ OthersInit

Next == MarkUnhealthy \/ MarkHealthy \/ SelectModel

Spec == Init /\ [][Next]_vars

\* ----------------------------------------------- specification: fallback
InitFallback ==
  /\ RouterInit
  /\ req = DefaultRequest
  /\ call = NoCall
  /\ lastMark = NoHistory
  /\ OthersInit

GetFallback == \E m \in ModelType : GetFallbackModel(m)

NextFallback == MarkUnhealthy \/ MarkHealthy \/ GetFallback

SpecFallback == InitFallback /\ [][NextFallback]_vars

\* --------------------------------------------- specification: validation
ContextWindows == {MODEL_CAPABILITIES[m].context_window : m \in ModelType}

TokenValues ==
  {-1, 0, 1} \cup UNION {(w - TokDelta) .. (w + TokDelta) : w \in ContextWindows}

ValidateRequests ==
  [content_len : {500}, task_type : TaskType, model : {None},
   require_reasoning : {FALSE}, require_creativity : {FALSE},
   max_tokens : {<<>>} \cup {<<n>> : n \in TokenValues}]

InitValidate ==
  /\ RouterInit
  /\ req \in ValidateRequests
  /\ call = NoCall
  /\ lastMark = NoHistory
  /\ OthersInit

Validate == \E m \in ModelType : ValidateRoutingDecision(m)

NextValidate == MarkUnhealthy \/ MarkHealthy \/ Validate

SpecValidate == InitValidate /\ [][NextValidate]_vars

\* ---------------------------------------- specification: health registry
\* the marks, with the history of the most recent mark on each backend
MarkUnhealthyRecorded ==
  \E m \in ModelType :
    mark_model_unhealthy(m) /\ lastMark' = [lastMark EXCEPT ![m] = "unhealthy"]

MarkHealthyRecorded ==
  \E m \in ModelType :
    mark_model_healthy(m) /\ lastMark' = [lastMark EXCEPT ![m] = "healthy"]

ReadHealth == \E m \in ModelType \cup {UNKNOWN_MODEL} : IsModelHealthy(m)

InitHealth ==
  /\ RouterInit
  /\ req = DefaultRequest
  /\ call = NoCall
  /\ lastMark = NoHistory
  /\ OthersInit

NextHealth == MarkUnhealthyRecorded \/ MarkHealthyRecorded \/ ReadHealth

SpecHealth == InitHealth /\ [][NextHealth]_vars

\* ======================================================== claims: selection
\* the state right after a select_model call on req
Selected == call.op = "select_model"

HasOverride == req.model # None

HealthyOverride == HasOverride /\ is_model_healthy(model_health, req.model)

UnhealthyOverride == HasOverride /\ ~is_model_healthy(model_health, req.model)

\* C1 as stated: every EMBEDDING request gets the EMBEDDING backend, whatever
\* the health state and whether the override is unset, healthy or unhealthy.
C1_AsStated ==
  (Selected /\ req.task_type = EMBEDDING) => call.ret = EMBEDDING_MODEL

\* C1 amended: an EMBEDDING request gets the EMBEDDING backend in every health
\* state when its override is unset, unhealthy or the EMBEDDING backend itself;
\* a healthy override is returned instead.
C1_EmbeddingUnlessHealthyOverride ==
  (Selected /\ req.task_type = EMBEDDING) =>
     /\ (~HasOverride \/ UnhealthyOverride \/ req.model = EMBEDDING_MODEL)
          => call.ret = EMBEDDING_MODEL
     /\ HealthyOverride => call.ret = req.model

C1_Witness ==
  /\ Selected
  /\ req.task_type = EMBEDDING
  /\ req.model = GPT4
  /\ ~model_health[GPT4]
  /\ ~model_health[EMBEDDING_MODEL]
  /\ call.ret = EMBEDDING_MODEL

\* C2: a request whose override is healthy at the call gets exactly that
\* backend, whatever its task_type, require flags and content are.
C2_HealthyOverrideReturned ==
  (Selected /\ HealthyOverride) => call.ret = req.model

C2_Witness ==
  /\ Selected
  /\ req.task_type = EMBEDDING
  /\ req.require_creativity
  /\ req.model = CLAUDE_3_SONNET
  /\ model_health[CLAUDE_3_SONNET]
  /\ call.ret = CLAUDE_3_SONNET

\* the backend the rules after the override test choose
HeuristicChoice ==
  IF req.task_type = EMBEDDING THEN EMBEDDING_MODEL
  ELSE intelligent_selection(req)

\* C3 as stated: with an unhealthy override the result is the heuristic
\* choice and is never the overridden backend.
C3_AsStated ==
  (Selected /\ UnhealthyOverride) =>
     (call.ret = HeuristicChoice /\ call.ret # req.model)

\* C3 amended: with an unhealthy override the result is the backend the
\* heuristic rules choose for the request; the rules do not read health, so
\* the result is the overridden backend whenever the rules choose it.
C3_UnhealthyOverrideFallsThrough ==
  (Selected /\ UnhealthyOverride) =>
     /\ call.ret = HeuristicChoice
     /\ (call.ret = req.model) = (HeuristicChoice = req.model)

C3_Witness ==
  /\ Selected
  /\ req.model = GPT4
  /\ ~model_health[GPT4]
  /\ req.require_creativity
  /\ req.task_type = CLASSIFICATION
  /\ call.ret = GPT4

\* C4: the heuristic rules are applied in priority order: for a non-embedding
\* request without a healthy override, require_creativity selects GPT4
\* whatever require_reasoning and task_type are; otherwise require_reasoning
\* selects CLAUDE_3_OPUS whatever task_type is; task_type decides only when
\* both flags are false.
C4_PriorityOrder ==
  (Selected /\ req.task_type # EMBEDDING /\ ~HealthyOverride) =>
     /\ req.require_creativity => call.ret = GPT4
     /\ (~req.require_creativity /\ req.require_reasoning)
          => call.ret = CLAUDE_3_OPUS
     /\ (~req.require_creativity /\ ~req.require_reasoning) =>
          /\ req.task_type = CREATIVE       => call.ret = GPT4
          /\ req.task_type = REASONING      => call.ret = CLAUDE_3_OPUS
          /\ req.task_type = CLASSIFICATION => call.ret = GPT35_TURBO
          /\ req.task_type = SUMMARIZATION  => call.ret = GEMINI_PRO
          /\ req.task_type = GENERAL        => call.ret = GPT35_TURBO

C4_Witness ==
  /\ Selected
  /\ req.task_type = CLASSIFICATION
  /\ req.require_creativity
  /\ req.require_reasoning
  /\ ~HasOverride
  /\ call.ret = GPT4

\* C5: an EXTRACTION request with no override and both flags false gets
\* GPT35_TURBO when its content has at most 2000 characters and
\* CLAUDE_3_SONNET when it has more.
C5_ExtractionThreshold ==
  (/\ Selected
   /\ req.task_type = EXTRACTION
   /\ ~HasOverride
   /\ ~req.require_creativity
   /\ ~req.require_reasoning) =>
     /\ req.content_len <= 2000 => call.ret = GPT35_TURBO
     /\ req.content_len > 2000  => call.ret = CLAUDE_3_SONNET

C5_Witness ==
  /\ Selected
  /\ req.task_type = EXTRACTION
  /\ ~HasOverride
  /\ ~req.require_creativity
  /\ ~req.require_reasoning
  /\ req.content_len = 2000
  /\ call.ret = GPT35_TURBO
  /\ \E m \in ModelType : ~model_health[m]

\* ========================================================= claims: fallback
FallbackCalled == call.op = "get_fallback_model"

\* the result of the last get_fallback_model call is the argument's designated
\* alternate when that alternate is healthy and None otherwise, and it is the
\* same whatever the health flag of the argument itself is
C6_OneHop ==
  FallbackCalled =>
    LET alt == fallback_of(call.arg)
    IN  /\ call.ret \in {alt, None}
        /\ (call.ret = alt) = (alt = None \/ model_health[alt])
        /\ call.arg = EMBEDDING_MODEL => call.ret = None
        /\ \A v \in BOOLEAN :
             get_fallback_model([model_health EXCEPT ![call.arg] = v], call.arg)
               = call.ret

\* a second call with the same argument right after the first returns the same
C6_Repeatable ==
  (FallbackCalled /\ FallbackCalled' /\ call'.arg = call.arg)
     => call'.ret = call.ret

\* C6: get_fallback_model is a one-hop lookup: it returns the backend's single
\* designated alternate when the alternate is healthy and None otherwise
\* (always None for EMBEDDING), never the alternate's alternate, independently
\* of the health of the backend itself, and repeatably between marks.
C6_FallbackOneHop == [](C6_OneHop) /\ [][C6_Repeatable]_vars

C6_Witness ==
  /\ FallbackCalled
  /\ call.arg = GEMINI_PRO
  /\ ~model_health[GPT4]
  /\ model_health[CLAUDE_3_OPUS]
  /\ ~model_health[GEMINI_PRO]
  /\ call.ret = None

\* ======================================================= claims: validation
ValidateCalled == call.op = "validate_routing_decision"

Window(model) == MODEL_CAPABILITIES[model].context_window

Rejected == call.ret[1] = FALSE /\ call.ret[2] # None

Accepted == call.ret = <<TRUE, None>>

\* C7: for a healthy selected backend and a request whose max_tokens is set,
\* validation fails when max_tokens is greater than the backend's
\* context_window and succeeds when it equals the context_window.
C7_ContextWindowBoundary ==
  (ValidateCalled /\ model_health[call.arg] /\ req.max_tokens # <<>>) =>
     /\ req.max_tokens[1] > Window(call.arg) => Rejected
     /\ req.max_tokens[1] = Window(call.arg) => Accepted

C7_Witness ==
  /\ ValidateCalled
  /\ call.arg = GPT35_TURBO
  /\ model_health[GPT35_TURBO]
  /\ req.max_tokens = <<16384>>
  /\ Accepted

\* C8: validation fails for every request whenever the selected backend is
\* marked unhealthy, also when max_tokens fits and the task type is supported.
C8_UnhealthyRejected ==
  (ValidateCalled /\ ~model_health[call.arg]) => Rejected

C8_Witness ==
  /\ ValidateCalled
  /\ call.arg = GPT4
  /\ ~model_health[GPT4]
  /\ req.task_type = CREATIVE
  /\ req.max_tokens = <<1>>
  /\ Rejected

\* C9: a task-type mismatch alone never fails validation: for a healthy
\* selected backend and max_tokens unset or at most the context_window the
\* result is (True, None) whether or not the task type is in the task list.
C9_TaskMismatchAdvisory ==
  (/\ ValidateCalled
   /\ model_health[call.arg]
   /\ (req.max_tokens = <<>> \/ req.max_tokens[1] <= Window(call.arg)))
     => Accepted

C9_Witness ==
  /\ ValidateCalled
  /\ call.arg = EMBEDDING_MODEL
  /\ model_health[EMBEDDING_MODEL]
  /\ req.task_type = SUMMARIZATION
  /\ req.task_type \notin MODEL_CAPABILITIES[call.arg].tasks
  /\ req.max_tokens = <<8191>>
  /\ Accepted

\* ================================================== claims: health registry
\* is_model_healthy(b) is true exactly when the most recent mark on b was
\* mark_model_healthy or b was never marked; false for a key not in the registry
C10_LastWrite ==
  /\ \A m \in ModelType :
       is_model_healthy(model_health, m) = (lastMark[m] # "unhealthy")
  /\ ~is_model_healthy(model_health, UNKNOWN_MODEL)
  /\ call.op = "is_model_healthy" =>
       call.ret = (call.arg \in ModelType /\ lastMark[call.arg] # "unhealthy")
  /\ call.op = "init" => \A m \in ModelType : is_model_healthy(model_health, m)

\* the same mark repeated on the same backend leaves the registry as it was
C10_Idempotent ==
  (/\ call.op \in {"mark_model_healthy", "mark_model_unhealthy"}
   /\ call'.op = call.op
   /\ call'.arg = call.arg) => model_health' = model_health

\* C10: the registry has last-write semantics per backend: a new router
\* reports every known backend healthy; is_model_healthy(b) is true exactly
\* when the most recent mark on b was mark_model_healthy or b was never
\* marked; a repeated mark changes nothing; an absent backend is unhealthy.
C10_HealthLastWrite == [](C10_LastWrite) /\ [][C10_Idempotent]_vars

C10_Witness ==
  /\ call.op = "is_model_healthy"
  /\ call.arg = GPT4
  /\ call.ret = TRUE
  /\ lastMark[GPT4] = "healthy"
  /\ lastMark[GPT35_TURBO] = "unhealthy"
  /\ lastMark[GEMINI_PRO] = "never"

\* ------------------------------------- specification: the whole router
\* every router operation, one call at a time
RouterRequests ==
  [content_len : {500}, task_type : {GENERAL, EMBEDDING, CREATIVE},
   model : {None, GPT4},
   require_reasoning : {FALSE}, require_creativity : BOOLEAN,
   max_tokens : {<<>>, <<200001>>}]

InitRouter ==
  /\ RouterInit
  /\ req \in RouterRequests
  /\ call = NoCall
  /\ lastMark = NoHistory
  /\ OthersInit

NextRouter ==
  \/ MarkUnhealthy
  \/ MarkHealthy
  \/ SelectModel
  \/ GetFallback
  \/ Validate
  \/ ReadHealth
  \/ GetModelStats

SpecRouter == InitRouter /\ [][NextRouter]_vars

\* ============================================ claims: frame of the registry
ReadOps ==
  {"select_model", "get_fallback_model", "validate_routing_decision",
   "is_model_healthy", "get_model_stats"}

\* a step of a read operation changes no flag; a mark on b changes no flag but
\* b's; a flag turns from unhealthy to healthy only by mark_model_healthy on it
C11_Frame ==
  /\ call'.op \in ReadOps => model_health' = model_health
  /\ call'.op \in {"mark_model_healthy", "mark_model_unhealthy"} =>
       \A m \in ModelType \ {call'.arg} : model_health'[m] = model_health[m]
  /\ \A m \in ModelType :
       (~model_health[m] /\ model_health'[m]) =>
          (call'.op = "mark_model_healthy" /\ call'.arg = m)

\* C11: health changes only through explicit mark calls: the read operations
\* leave every flag unchanged, a mark on b changes no other flag, and an
\* unhealthy backend stays unhealthy until mark_model_healthy is called on it.
C11_HealthOnlyByMarks == [][C11_Frame]_vars

C11_Witness ==
  /\ call.op = "select_model"
  /\ req.model = GPT4
  /\ req.require_creativity
  /\ call.ret = GPT4
  /\ ~model_health[GPT4]
  /\ ~model_health[CLAUDE_3_OPUS]
  /\ model_health[GEMINI_PRO]

\* ============================================================ claims: stats
StatsCalled == call.op = "get_model_stats"

\* C12: after any sequence of marks issued one at a time, get_model_stats
\* returns total_models equal to the fixed number of backends, healthy_models
\* + unhealthy_models = total_models, healthy_models equal to the number of
\* backends is_model_healthy holds for, and a model_status entry for every
\* backend that says healthy exactly when is_model_healthy holds.
C12_StatsConsistent ==
  StatsCalled =>
    /\ call.ret.total_models = 6
    /\ call.ret.total_models = Cardinality(ModelType)
    /\ call.ret.healthy_models + call.ret.unhealthy_models
         = call.ret.total_models
    /\ call.ret.healthy_models
         = Cardinality({m \in ModelType : is_model_healthy(model_health, m)})
    /\ DOMAIN call.ret.model_status = ModelType
    /\ \A m \in ModelType :
         (call.ret.model_status[m] = "healthy")
           = is_model_healthy(model_health, m)

C12_Witness ==
  /\ StatsCalled
  /\ call.ret.healthy_models = 4
  /\ call.ret.unhealthy_models = 2
  /\ call.ret.model_status[GPT4] = "unhealthy"
  /\ call.ret.model_status[EMBEDDING_MODEL] = "unhealthy"

\* ------------------- specification: get_model_stats running beside marks
\* The router takes no lock, so a thread running get_model_stats can be
\* preempted between any two of its reads of model_health while another
\* thread marks.  The two loops of get_model_stats read the dictionary one
\* entry at a time, in insertion order (the definition order of ModelType).
ModelOrder ==
  <<GPT4, GPT35_TURBO, CLAUDE_3_OPUS, CLAUDE_3_SONNET, GEMINI_PRO, EMBEDDING_MODEL>>

StatsBegin ==
  /\ stats_task.pc = "idle"
  /\ stats_task' = [StatsIdle EXCEPT !.pc = "count"]
  /\ UNCHANGED <<callers, model_health, req, call, lastMark, contexts,
                 router_instance, routers, threads>>

\* one iteration of sum(1 for h in self.model_health.values() if h)
StatsCount ==
  /\ stats_task.pc = "count"
  /\ LET k == stats_task.i + 1
         n == stats_task.healthy_count
                + (IF model_health[ModelOrder[k]] THEN 1 ELSE 0)
     IN  stats_task' =
           IF k = Len(ModelOrder)
             THEN [stats_task EXCEPT !.pc = "status", !.i = 0, !.healthy_count = n]
             ELSE [stats_task EXCEPT !.i = k, !.healthy_count = n]
  /\ UNCHANGED <<callers, model_health, req, call, lastMark, contexts,
                 router_instance, routers, threads>>

\* one iteration of the model_status comprehension over model_health.items()
StatsStatus ==
  /\ stats_task.pc = "status"
  /\ LET k  == stats_task.i + 1
         st == Append(stats_task.status,
                      IF model_health[ModelOrder[k]] THEN "healthy"
                      ELSE "unhealthy")
     IN  stats_task' =
           IF k = Len(ModelOrder)
             THEN [stats_task EXCEPT !.pc = "return", !.i = 0, !.status = st]
             ELSE [stats_task EXCEPT !.i = k, !.status = st]
  /\ UNCHANGED <<callers, model_health, req, call, lastMark, contexts,
                 router_instance, routers, threads>>

\* the dictionary get_model_stats returns
StatsReturn ==
  /\ stats_task.pc = "return"
  /\ call' =
       [op |-> "get_model_stats", arg |-> None,
        ret |-> [total_models     |-> Cardinality(DOMAIN model_health),
                 healthy_models   |-> stats_task.healthy_count,
                 unhealthy_models |-> Cardinality(DOMAIN model_health)
                                        - stats_task.healthy_count,
                 model_status     |->
                   [m \in ModelType |->
                      stats_task.status[CHOOSE k \in 1 .. Len(ModelOrder) :
                                           ModelOrder[k] = m]]]]
  /\ stats_task' = StatsIdle
  /\ UNCHANGED <<callers, model_health, req, lastMark, contexts,
                 router_instance, routers, threads>>

InitStats ==
  /\ RouterInit
  /\ req = DefaultRequest
  /\ call = NoCall
  /\ lastMark = NoHistory
  /\ OthersInit

NextStats ==
  \/ MarkUnhealthy
  \/ MarkHealthy
  \/ StatsBegin
  \/ StatsCount
  \/ StatsStatus
  \/ StatsReturn

SpecStats == InitStats /\ [][NextStats]_vars

\* C13: the registry is safe under concurrent access: when marks from other
\* threads interleave with a running get_model_stats call, the returned
\* snapshot is internally consistent: healthy_models equals the number of
\* entries its own model_status reports healthy, and healthy_models +
\* unhealthy_models = total_models.
C13_SnapshotConsistent ==
  StatsCalled =>
    /\ call.ret.healthy_models
         = Cardinality({m \in ModelType : call.ret.model_status[m] = "healthy"})
    /\ call.ret.healthy_models + call.ret.unhealthy_models
         = call.ret.total_models

\* ===================================================== protocol: envelopes
\* MCPPriority members, by name; their values are the integers 0..3
MCPPriority == {"LOW", "NORMAL", "HIGH", "CRITICAL"}

MCPPriorityValue ==
  [p \in MCPPriority |->
     CASE p = "LOW" -> 0 [] p = "NORMAL" -> 1 [] p = "HIGH" -> 2
       [] p = "CRITICAL" -> 3]

\* temperatures are counted in tenths: 7 is the default 0.7, 20 is 2.0
TEMPERATURE_MAX_TENTHS == 20

\* the most MCPContext objects a behaviour creates
MaxContexts == 2

\* ------------------------------------------------------------- MCPContext
EmptyMemory == <<>>

\* MCPContext(): a new conversation_id (uuid4: a value no earlier context
\* has), empty history and empty shared_memory
fresh_context(heap) ==
  [conversation_id |-> Len(heap) + 1, history |-> <<>>,
   shared_memory |-> EmptyMemory]

\* the most turns a history holds
MaxHistory == 2

\* add_message: one turn appended to history
add_message(ctx, role, content, model, timestamp) ==
  [ctx EXCEPT !.history =
     Append(@, [role |-> role, content |-> content, model |-> model,
                timestamp |-> timestamp])]

\* history[-n:] for n > 0: the last n turns, all of them when n >= len
last_turns(history, n) ==
  IF n >= Len(history) THEN history
  ELSE SubSeq(history, Len(history) - n + 1, Len(history))

\* history[k:] for k >= 0: what follows the first k turns
after_turns(history, k) ==
  IF k >= Len(history) THEN <<>>
  ELSE SubSeq(history, k + 1, Len(history))

\* get_history(last_n): history[-last_n:] when last_n is truthy, else history
get_history(ctx, last_n) ==
  IF Truthy(last_n)
    THEN IF last_n[1] > 0 THEN last_turns(ctx.history, last_n[1])
         ELSE after_turns(ctx.history, 0 - last_n[1])
    ELSE ctx.history

\* self.shared_memory[key] = value
set_memory(ctx, key, value) ==
  [ctx EXCEPT !.shared_memory =
     [k \in DOMAIN @ \cup {key} |-> IF k = key THEN value ELSE @[k]]]

\* self.shared_memory.get(key, default)
get_memory(ctx, key, default) ==
  IF key \in DOMAIN ctx.shared_memory THEN ctx.shared_memory[key] ELSE default

\* variant: clearing the memory clears the conversation too
clear_memory_clears_history(ctx) ==
  [ctx EXCEPT !.shared_memory = EmptyMemory, !.history = <<>>]

\* self.shared_memory.clear()
clear_memory(ctx) == [ctx EXCEPT !.shared_memory = EmptyMemory]

\* ------------------------------------------------------------- MCPRequest
\* variant: use_context replaces a supplied context by a new one
MCPRequest_init_replaces_context(args, context, use_context, heap) ==
  IF use_context
    THEN [request |-> [args EXCEPT !.context = Some(Len(heap) + 1),
                                   !.use_context = use_context],
          heap    |-> Append(heap, fresh_context(heap))]
    ELSE [request |-> [args EXCEPT !.context = context,
                                   !.use_context = use_context],
          heap    |-> heap]

\* MCPRequest(..., context=context, use_context=use_context): the dataclass
\* constructor followed by __post_init__; contexts are held by reference
MCPRequest_init(args, context, use_context, heap) ==
  IF context = Absent /\ use_context
    THEN [request |-> [args EXCEPT !.context = Some(Len(heap) + 1),
                                   !.use_context = use_context],
          heap    |-> Append(heap, fresh_context(heap))]
    ELSE [request |-> [args EXCEPT !.context = context,
                                   !.use_context = use_context],
          heap    |-> heap]

\* ---------------------------------------------------- MCPProtocolValidator
MSG_CONTENT     == "Request content cannot be empty"
MSG_MAX_TOKENS  == "max_tokens must be positive"
MSG_TEMPERATURE == "temperature must be between 0 and 2.0"
MSG_CACHE_TTL   == "cache_ttl cannot be negative"

validate_request(request) ==
  IF request.content_len = 0 /\ request.task_type # EMBEDDING
    THEN <<FALSE, MSG_CONTENT>>
  ELSE IF Truthy(request.max_tokens) /\ request.max_tokens[1] <= 0
    THEN <<FALSE, MSG_MAX_TOKENS>>
  ELSE IF ~(0 <= request.temperature
            /\ request.temperature <= TEMPERATURE_MAX_TENTHS)
    THEN <<FALSE, MSG_TEMPERATURE>>
  ELSE IF request.cache_ttl < 0
    THEN <<FALSE, MSG_CACHE_TTL>>
  ELSE <<TRUE, None>>

\* what a call returns or raises
Returned(value) == [raised |-> Absent, value |-> Some(value)]

Raised(message) ==
  [raised |-> Some([type |-> "ValueError", message |-> message]),
   value |-> Absent]

\* create_request: construct, validate, raise ValueError or return
create_request(args, context, use_context, heap) ==
  LET made  == MCPRequest_init(args, context, use_context, heap)
      check == validate_request(made.request)
  IN  [outcome |-> IF check[1] THEN Returned(made.request)
                   ELSE Raised(<<"Invalid MCP request", check[2]>>),
       heap    |-> made.heap]

\* ---------------------------------------- specification: building requests
\* the keyword arguments of a request, drawn once per behaviour; the context
\* argument and use_context are chosen at each call
RequestArgs ==
  [content_len : {0, 5}, task_type : {GENERAL, EMBEDDING},
   model : {None, GPT4}, priority : MCPPriority,
   require_reasoning : {FALSE}, require_creativity : {FALSE},
   max_tokens : {<<>>, <<-1>>, <<0>>, <<1>>},
   temperature : {-1, 0, 7, TEMPERATURE_MAX_TENTHS, TEMPERATURE_MAX_TENTHS + 1},
   cache_ttl : {-1, 0, 3600},
   context : {Absent}, use_context : {TRUE}]

ContextRefs == {Some(k) : k \in DOMAIN contexts}

\* the caller creates a context of its own: MCPContext()
NewContext ==
  /\ Len(contexts) < MaxContexts
  /\ contexts' = Append(contexts, fresh_context(contexts))
  /\ call' = [op |-> "MCPContext", arg |-> None,
              ret |-> Some(Len(contexts) + 1)]
  /\ UNCHANGED <<callers, model_health, req, lastMark, stats_task,
                 router_instance, routers, threads>>

\* MCPRequest(**req, context=c, use_context=u)
NewRequest ==
  \E c \in ContextRefs \cup {Absent}, u \in BOOLEAN :
    LET made == MCPRequest_init(req, c, u, contexts)
    IN  /\ Len(made.heap) <= MaxContexts
        /\ contexts' = made.heap
        /\ call' = [op |-> "MCPRequest",
                    arg |-> [context |-> c, use_context |-> u],
                    ret |-> made.request]
        /\ UNCHANGED <<callers, model_health, req, lastMark, stats_task,
                       router_instance, routers, threads>>

\* MCPProtocolValidator.validate_request on the request just constructed
ValidateRequest ==
  /\ call.op = "MCPRequest"
  /\ call' = [op |-> "validate_request", arg |-> call.ret,
              ret |-> validate_request(call.ret)]
  /\ UNCHANGED <<callers, model_health, req, lastMark, stats_task, contexts,
                 router_instance, routers, threads>>

\* create_request(**req, context=c, use_context=u)
CreateRequest ==
  \E c \in ContextRefs \cup {Absent}, u \in BOOLEAN :
    LET done == create_request(req, c, u, contexts)
    IN  /\ Len(done.heap) <= MaxContexts
        /\ contexts' = done.heap
        /\ call' = [op |-> "create_request",
                    arg |-> [context |-> c, use_context |-> u],
                    ret |-> done.outcome]
        /\ UNCHANGED <<callers, model_health, req, lastMark, stats_task,
                       router_instance, routers, threads>>

\* a context the caller made and used before: one turn, one memory entry
UsedContext ==
  set_memory(add_message(fresh_context(<<>>), "user", "hello", None, 0),
             "topic", "routing")

InitRequest ==
  /\ RouterInit
  /\ req \in RequestArgs
  /\ call = NoCall
  /\ lastMark = NoHistory
  /\ stats_task = StatsIdle
  /\ contexts \in {<<>>, <<UsedContext>>}
  /\ router_instance = Absent
  /\ routers = <<>>
  /\ threads = ThreadsIdle
  /\ selections = <<>>
  /\ retry = RetryIdle
  /\ agent = AgentInit
  /\ tasks = TasksIdle

NextRequest == NewContext \/ NewRequest \/ ValidateRequest \/ CreateRequest

SpecRequest == InitRequest /\ [][NextRequest]_vars

\* ============================================ claims: request validation
ValidatedRequest == call.op = "validate_request"

\* the rules of a request, as the specification lists them
RuleContent(r) == r.content_len = 0 /\ r.task_type # EMBEDDING

RuleMaxTokens(r) == r.max_tokens # <<>> /\ r.max_tokens[1] <= 0

RuleTemperature(r) == r.temperature < 0 \/ r.temperature > 20

RuleCacheTtl(r) == r.cache_ttl < 0

FirstViolated(r) ==
  IF RuleContent(r) THEN MSG_CONTENT
  ELSE IF RuleMaxTokens(r) THEN MSG_MAX_TOKENS
  ELSE IF RuleTemperature(r) THEN MSG_TEMPERATURE
  ELSE IF RuleCacheTtl(r) THEN MSG_CACHE_TTL
  ELSE None

\* C14: validate_request reports the first violated rule in the order
\* content, max_tokens, temperature, cache_ttl, and returns (True, None) only
\* when no rule is violated.
C14_FirstViolatedRule ==
  ValidatedRequest =>
    call.ret = (IF FirstViolated(call.arg) = None THEN <<TRUE, None>>
                ELSE <<FALSE, FirstViolated(call.arg)>>)

\* ========================================== claims: request construction
CreatedRequest == call.op = "create_request"

RequestInvariants(r) ==
  ~RuleContent(r) /\ ~RuleMaxTokens(r) /\ ~RuleTemperature(r) /\ ~RuleCacheTtl(r)

\* C15: every request create_request returns satisfies the Request
\* invariants (content non-empty unless EMBEDDING, max_tokens if present
\* strictly positive, temperature within [0, 2.0], cache_ttl >= 0), and for
\* arguments violating one of them create_request raises ValueError carrying
\* the validator's reason and returns no request.
C15_CreatedRequestsValid ==
  CreatedRequest =>
    /\ call.ret.value # Absent => RequestInvariants(call.ret.value[1])
    /\ ~RequestInvariants(req) =>
         /\ call.ret.value = Absent
         /\ call.ret.raised # Absent
         /\ call.ret.raised[1].type = "ValueError"
         /\ call.ret.raised[1].message[2] = FirstViolated(req)

\* the state right after a request was constructed, and that request
Constructed ==
  call.op = "MCPRequest" \/ (CreatedRequest /\ call.ret.value # Absent)

TheRequest == IF call.op = "MCPRequest" THEN call.ret ELSE call.ret.value[1]

C17_Linked ==
  Constructed =>
    /\ (call.arg.context = Absent /\ call.arg.use_context) =>
         /\ TheRequest.context = Some(Len(contexts))
         /\ contexts[Len(contexts)].history = <<>>
         /\ contexts[Len(contexts)].shared_memory = EmptyMemory
         /\ \A k \in 1 .. (Len(contexts) - 1) :
              contexts[k].conversation_id
                # contexts[Len(contexts)].conversation_id
    /\ call.arg.context # Absent => TheRequest.context = call.arg.context
    /\ (call.arg.context = Absent /\ ~call.arg.use_context) =>
         TheRequest.context = Absent

\* constructing a request changes no context that exists, and creates one
\* exactly when use_context is true and none is supplied
C17_KeptAsIs ==
  call'.op \in {"MCPRequest", "create_request"} =>
    /\ \A k \in DOMAIN contexts : contexts'[k] = contexts[k]
    /\ Len(contexts') =
         Len(contexts)
           + (IF call'.arg.context = Absent /\ call'.arg.use_context
              THEN 1 ELSE 0)

\* C17: request construction links a context: with use_context true and no
\* context supplied the request carries a freshly created context (empty
\* history, empty shared memory, a conversation id no earlier context has); a
\* supplied context is kept as is; with use_context false and none supplied
\* the request has no context.
C17_ContextLinkage == [](C17_Linked) /\ [][C17_KeptAsIs]_vars

C17_Witness ==
  /\ call.op = "MCPRequest"
  /\ call.arg.use_context
  /\ call.arg.context = Some(1)
  /\ call.ret.context = Some(1)
  /\ Len(contexts) = 2
  /\ Len(contexts[1].history) = 1

\* ============================================================ MCPResponse
MSG_NO_ERROR  == "Failed response must include error message"
MSG_LATENCY   == "latency_ms cannot be negative"
MSG_TOKENS    == "tokens_used cannot be negative"

\* Python truthiness of an Optional[str]: None and "" are falsy
TruthyStr(text) == text # None /\ text # ""

\* variant: the tokens_used test is missing
validate_response_tokens_unchecked(response) ==
  IF ~response.success /\ ~TruthyStr(response.error)
    THEN <<FALSE, MSG_NO_ERROR>>
  ELSE IF response.latency_ms < 0
    THEN <<FALSE, MSG_LATENCY>>
  ELSE <<TRUE, None>>

validate_response(response) ==
  IF ~response.success /\ ~TruthyStr(response.error)
    THEN <<FALSE, MSG_NO_ERROR>>
  ELSE IF response.latency_ms < 0
    THEN <<FALSE, MSG_LATENCY>>
  ELSE IF response.tokens_used < 0
    THEN <<FALSE, MSG_TOKENS>>
  ELSE <<TRUE, None>>

\* create_response: construct, validate, raise ValueError or return
create_response(args) ==
  LET check == validate_response(args)
  IN  IF check[1] THEN Returned(args)
      ELSE Raised(<<"Invalid MCP response", check[2]>>)

\* --------------------------------------- specification: building responses
ResponseArgs ==
  [model_used : {GPT4, EMBEDDING_MODEL}, success : BOOLEAN,
   latency_ms : {-1, 0, 1}, tokens_used : {-1, 0, 1},
   error : {None, "", "timeout"},
   fallback_model : {None, CLAUDE_3_OPUS}]

\* MCPProtocolValidator.validate_response(MCPResponse(**args))
ValidateResponse ==
  \E args \in ResponseArgs :
    /\ call' = [op |-> "validate_response", arg |-> args,
                ret |-> validate_response(args)]
    /\ UNCHANGED <<model_health, req, lastMark>>
    /\ UNCHANGED others

\* create_response(**args)
CreateResponse ==
  \E args \in ResponseArgs :
    /\ call' = [op |-> "create_response", arg |-> args,
                ret |-> create_response(args)]
    /\ UNCHANGED <<model_health, req, lastMark>>
    /\ UNCHANGED others

InitResponse ==
  /\ RouterInit
  /\ req = DefaultRequest
  /\ call = NoCall
  /\ lastMark = NoHistory
  /\ OthersInit

NextResponse == ValidateResponse \/ CreateResponse

SpecResponse == InitResponse /\ [][NextResponse]_vars

\* ========================================= claims: response construction
CreatedResponse == call.op = "create_response"

ResponseViolates(a) ==
  \/ (~a.success /\ a.error \in {None, ""})
  \/ a.latency_ms < 0
  \/ a.tokens_used < 0

\* C16: every response create_response returns satisfies success = false =>
\* error non-empty, latency_ms >= 0 and tokens_used >= 0; for arguments
\* violating one of them (a failed response with error None or "", a negative
\* latency, a negative token count) create_response raises ValueError
\* carrying the validator's reason and returns no response.
C16_CreatedResponsesValid ==
  CreatedResponse =>
    /\ call.ret.value # Absent =>
         /\ call.ret.value[1] = call.arg
         /\ ~ResponseViolates(call.ret.value[1])
    /\ ResponseViolates(call.arg) =>
         /\ call.ret.value = Absent
         /\ call.ret.raised # Absent
         /\ call.ret.raised[1].type = "ValueError"
         /\ call.ret.raised[1].message[2]
              \in {MSG_NO_ERROR, MSG_LATENCY, MSG_TOKENS}
         /\ call.ret.raised[1].message[2] = validate_response(call.arg)[2]
    /\ ~ResponseViolates(call.arg) => call.ret.value # Absent

C16_Witness ==
  /\ CreatedResponse
  /\ ~call.arg.success
  /\ call.arg.error = ""
  /\ call.arg.latency_ms = 0
  /\ call.arg.tokens_used = 0
  /\ call.ret.value = Absent
  /\ call.ret.raised[1].message[2] = MSG_NO_ERROR

\* ------------------------------------ specification: one context in use
Roles == {"user", "assistant"}

Contents == {"hi"}

\* readings of datetime.now()
Timestamps == {0, 1}

MemoryKeys == {"k1", "k2"}

MemoryValues == {"v1", "v2"}

LastN == {<<>>, <<0>>, <<1>>, <<2>>, <<-1>>}

AddMessage ==
  \E c \in DOMAIN contexts, role \in Roles, content \in Contents,
     model \in {None, GPT4}, t \in Timestamps :
    /\ Len(contexts[c].history) < MaxHistory
    /\ contexts' = [contexts EXCEPT
                      ![c] = add_message(@, role, content, model, t)]
    /\ call' = [op |-> "add_message",
                arg |-> [context |-> c, role |-> role, content |-> content,
                         model |-> model, timestamp |-> t],
                ret |-> None]
    /\ UNCHANGED <<callers, model_health, req, lastMark, stats_task,
                   router_instance, routers, threads>>

GetHistory ==
  \E c \in DOMAIN contexts, n \in LastN :
    /\ call' = [op |-> "get_history", arg |-> [context |-> c, last_n |-> n],
                ret |-> get_history(contexts[c], n)]
    /\ UNCHANGED <<callers, model_health, req, lastMark, stats_task, contexts,
                   router_instance, routers, threads>>

SetMemory ==
  \E c \in DOMAIN contexts, key \in MemoryKeys, value \in MemoryValues :
    /\ contexts' = [contexts EXCEPT ![c] = set_memory(@, key, value)]
    /\ call' = [op |-> "set_memory",
                arg |-> [context |-> c, key |-> key, value |-> value],
                ret |-> None]
    /\ UNCHANGED <<callers, model_health, req, lastMark, stats_task,
                   router_instance, routers, threads>>

GetMemory ==
  \E c \in DOMAIN contexts, key \in MemoryKeys :
    /\ call' = [op |-> "get_memory", arg |-> [context |-> c, key |-> key],
                ret |-> get_memory(contexts[c], key, None)]
    /\ UNCHANGED <<callers, model_health, req, lastMark, stats_task, contexts,
                   router_instance, routers, threads>>

ClearMemory ==
  \E c \in DOMAIN contexts :
    /\ contexts' = [contexts EXCEPT ![c] = clear_memory(@)]
    /\ call' = [op |-> "clear_memory", arg |-> [context |-> c], ret |-> None]
    /\ UNCHANGED <<callers, model_health, req, lastMark, stats_task,
                   router_instance, routers, threads>>

\* one context, just created
InitContext ==
  /\ RouterInit
  /\ req = DefaultRequest
  /\ call = NoCall
  /\ lastMark = NoHistory
  /\ stats_task = StatsIdle
  /\ contexts = <<fresh_context(<<>>)>>
  /\ router_instance = Absent
  /\ routers = <<>>
  /\ threads = ThreadsIdle
  /\ selections = <<>>
  /\ retry = RetryIdle
  /\ agent = AgentInit
  /\ tasks = TasksIdle

NextContext ==
  AddMessage \/ GetHistory \/ SetMemory \/ GetMemory \/ ClearMemory

SpecContext == InitContext /\ [][NextContext]_vars

\* ========================================================= claims: context
\* the turn an add_message call appends
TurnOf(a) ==
  [role |-> a.role, content |-> a.content, model |-> a.model,
   timestamp |-> a.timestamp]

C18_Step ==
  \A k \in DOMAIN contexts :
    /\ k \in DOMAIN contexts'
    /\ contexts'[k].conversation_id = contexts[k].conversation_id
    /\ IF call'.op = "add_message" /\ call'.arg.context = k
         THEN /\ Len(contexts'[k].history) = Len(contexts[k].history) + 1
              /\ contexts'[k].history
                   = Append(contexts[k].history, TurnOf(call'.arg))
         ELSE contexts'[k].history = contexts[k].history
    /\ (call'.op = "clear_memory" /\ call'.arg.context = k) =>
         contexts'[k].shared_memory = EmptyMemory

\* C18: over any sequence of add_message, get_history, set_memory, get_memory
\* and clear_memory calls on a context, conversation_id never changes and
\* history is append-only: add_message adds exactly one turn at the end, and
\* every other operation, clear_memory included, leaves history unchanged.
C18_HistoryAppendOnly == [][C18_Step]_vars

C18_Witness ==
  /\ call.op = "clear_memory"
  /\ Len(contexts[1].history) = 2
  /\ contexts[1].history[1].role = "user"
  /\ contexts[1].history[2].role = "assistant"
  /\ contexts[1].shared_memory = EmptyMemory
  /\ contexts[1].conversation_id = 1

\* ========================================================== serialization
\* a dictionary value with its Python type
PyStr(text) == [type |-> "str", value |-> text]

PyInt(n) == [type |-> "int", value |-> n]

PyNone == [type |-> "NoneType", value |-> None]

\* the .value of the members of the string-valued enumerations
TaskTypeValue ==
  [t \in TaskType |->
     CASE t = CREATIVE -> "creative" [] t = REASONING -> "reasoning"
       [] t = CLASSIFICATION -> "classification" [] t = EXTRACTION -> "extraction"
       [] t = SUMMARIZATION -> "summarization" [] t = EMBEDDING -> "embedding"
       [] t = GENERAL -> "general"]

ModelTypeValue ==
  [m \in ModelType |->
     CASE m = GPT4 -> "gpt-4" [] m = GPT35_TURBO -> "gpt-3.5-turbo"
       [] m = CLAUDE_3_OPUS -> "claude-3-opus"
       [] m = CLAUDE_3_SONNET -> "claude-3-sonnet"
       [] m = GEMINI_PRO -> "gemini-pro"
       [] m = EMBEDDING_MODEL -> "text-embedding-3-small"]

\* MCPMessageType members, by name, and their values
MCPMessageType ==
  {"REQUEST", "RESPONSE", "ERROR", "CONTEXT_SHARE", "HEALTH_CHECK"}

MCPMessageTypeValue ==
  [t \in MCPMessageType |->
     CASE t = "REQUEST" -> "request" [] t = "RESPONSE" -> "response"
       [] t = "ERROR" -> "error" [] t = "CONTEXT_SHARE" -> "context_share"
       [] t = "HEALTH_CHECK" -> "health_check"]

\* x.value if x else None, for an Optional[ModelType]
optional_model_value(model) ==
  IF model # None THEN PyStr(ModelTypeValue[model]) ELSE PyNone

\* MCPRequest.to_dict: the enum-valued entries and the scalar ones
request_to_dict(request) ==
  [content_len       |-> request.content_len,
   task_type         |-> PyStr(TaskTypeValue[request.task_type]),
   model             |-> optional_model_value(request.model),
   priority          |-> PyInt(MCPPriorityValue[request.priority]),
   require_reasoning |-> request.require_reasoning,
   require_creativity |-> request.require_creativity,
   max_tokens        |-> request.max_tokens,
   temperature       |-> request.temperature,
   cache_ttl         |-> request.cache_ttl]

\* MCPResponse.to_dict
response_to_dict(response) ==
  [model_used     |-> PyStr(ModelTypeValue[response.model_used]),
   success        |-> response.success,
   latency_ms     |-> response.latency_ms,
   tokens_used    |-> response.tokens_used,
   error          |-> response.error,
   fallback_model |-> optional_model_value(response.fallback_model)]

\* MCPMessage.to_dict
message_to_dict(message) ==
  [message_type |-> PyStr(MCPMessageTypeValue[message.message_type])]

\* ----------------------------------------- specification: serialization
\* requests that pass validation, with every enum-valued field varied
SerializeArgs ==
  [content_len : {5}, task_type : TaskType,
   model : ModelType \cup {None}, priority : MCPPriority,
   require_reasoning : {FALSE}, require_creativity : {FALSE},
   max_tokens : {<<>>}, temperature : {7}, cache_ttl : {3600},
   context : {Absent}, use_context : {TRUE}]

\* MCPRequest(**req, use_context=False).to_dict()
RequestToDict ==
  LET request == MCPRequest_init(req, Absent, FALSE, contexts).request
  IN  /\ call' = [op |-> "request_to_dict", arg |-> request,
                  ret |-> request_to_dict(request)]
      /\ UNCHANGED <<model_health, req, lastMark>>
      /\ UNCHANGED others

\* MCPResponse(..., model_used=m, fallback_model=f).to_dict()
ResponseToDict ==
  \E m \in ModelType, f \in ModelType \cup {None} :
    LET response == [model_used |-> m, success |-> TRUE, latency_ms |-> 0,
                     tokens_used |-> 0, error |-> None, fallback_model |-> f]
    IN  /\ call' = [op |-> "response_to_dict", arg |-> response,
                    ret |-> response_to_dict(response)]
        /\ UNCHANGED <<model_health, req, lastMark>>
        /\ UNCHANGED others

\* MCPMessage(message_type=t).to_dict()
MessageToDict ==
  \E t \in MCPMessageType :
    LET message == [message_type |-> t]
    IN  /\ call' = [op |-> "message_to_dict", arg |-> message,
                    ret |-> message_to_dict(message)]
        /\ UNCHANGED <<model_health, req, lastMark>>
        /\ UNCHANGED others

InitSerialize ==
  /\ RouterInit
  /\ req \in SerializeArgs
  /\ call = NoCall
  /\ lastMark = NoHistory
  /\ OthersInit

NextSerialize == RequestToDict \/ ResponseToDict \/ MessageToDict

SpecSerialize == InitSerialize /\ [][NextSerialize]_vars

\* =================================================== claims: serialization
IsTag(entry) == entry.type = "str"

IsTagOrNone(entry) == entry.type \in {"str", "NoneType"}

\* C19: to_dict of a Request, a Response and a Message renders every
\* enum-valued field as the enum's string tag: task_type, model, model_used,
\* fallback_model, message_type and priority all appear as strings, never as
\* integers or enum objects (an absent optional model is None).
C19_EnumsAsStringTags ==
  /\ call.op = "request_to_dict" =>
       /\ IsTag(call.ret.task_type)
       /\ IsTagOrNone(call.ret.model)
       /\ IsTag(call.ret.priority)
  /\ call.op = "response_to_dict" =>
       /\ IsTag(call.ret.model_used)
       /\ IsTagOrNone(call.ret.fallback_model)
  /\ call.op = "message_to_dict" => IsTag(call.ret.message_type)

\* ------------------------------------------- specification: get_router
\* get_router takes no lock: a thread can be preempted between the test of
\* _router_instance, the construction, the assignment and the return.
\* A thread that has its handle marks and reads through it.
MarkedModels == {GPT4, GPT35_TURBO}

\* if _router_instance is None:
GetRouterTest(t) ==
  /\ threads[t].pc = "idle"
  /\ threads' = [threads EXCEPT
                   ![t].pc = IF router_instance = Absent THEN "construct"
                             ELSE "return"]
  /\ UNCHANGED <<callers, model_health, req, call, lastMark,
                 stats_task, contexts, router_instance, routers>>

\* MCPRouter(): a new router object, every model healthy
GetRouterConstruct(t) ==
  /\ threads[t].pc = "construct"
  /\ routers' = Append(routers, [m \in ModelType |-> TRUE])
  /\ threads' = [threads EXCEPT ![t].pc = "assign",
                                ![t].local = Some(Len(routers) + 1)]
  /\ UNCHANGED <<callers, model_health, req, call, lastMark,
                 stats_task, contexts, router_instance>>

\* _router_instance = <the new router>
GetRouterAssign(t) ==
  /\ threads[t].pc = "assign"
  /\ router_instance' = threads[t].local
  /\ threads' = [threads EXCEPT ![t].pc = "return"]
  /\ UNCHANGED <<callers, model_health, req, call, lastMark,
                 stats_task, contexts, routers>>

\* return _router_instance
GetRouterReturn(t) ==
  /\ threads[t].pc = "return"
  /\ threads' = [threads EXCEPT ![t].pc = "done",
                                ![t].handle = router_instance]
  /\ call' = [op |-> "get_router", arg |-> t, ret |-> router_instance]
  /\ UNCHANGED <<callers, model_health, req, lastMark, stats_task, contexts,
                 router_instance, routers>>

\* get_router().mark_model_unhealthy(m), through the handle of thread t
MarkUnhealthyVia(t, m) ==
  /\ threads[t].pc = "done"
  /\ routers' = [routers EXCEPT ![threads[t].handle[1]] = set_unhealthy(@, m)]
  /\ call' = [op |-> "mark_model_unhealthy",
              arg |-> [thread |-> t, model |-> m], ret |-> None]
  /\ UNCHANGED <<callers, model_health, req, lastMark, stats_task, contexts,
                 router_instance, threads>>

\* get_router().mark_model_healthy(m), through the handle of thread t
MarkHealthyVia(t, m) ==
  /\ threads[t].pc = "done"
  /\ routers' = [routers EXCEPT ![threads[t].handle[1]] = set_healthy(@, m)]
  /\ call' = [op |-> "mark_model_healthy",
              arg |-> [thread |-> t, model |-> m], ret |-> None]
  /\ UNCHANGED <<callers, model_health, req, lastMark, stats_task, contexts,
                 router_instance, threads>>

\* get_router().is_model_healthy(m), through the handle of thread t
IsModelHealthyVia(t, m) ==
  /\ threads[t].pc = "done"
  /\ call' = [op |-> "is_model_healthy",
              arg |-> [thread |-> t, model |-> m],
              ret |-> is_model_healthy(routers[threads[t].handle[1]], m)]
  /\ UNCHANGED <<callers, model_health, req, lastMark, stats_task, contexts,
                 router_instance, routers, threads>>

GetRouter ==
  \E t \in Threads :
    \/ GetRouterTest(t)
    \/ GetRouterConstruct(t)
    \/ GetRouterAssign(t)
    \/ GetRouterReturn(t)

UseRouter ==
  \E t \in Threads, m \in MarkedModels :
    \/ MarkUnhealthyVia(t, m)
    \/ MarkHealthyVia(t, m)
    \/ IsModelHealthyVia(t, m)

InitSingleton ==
  /\ RouterInit
  /\ req = DefaultRequest
  /\ call = NoCall
  /\ lastMark = NoHistory
  /\ OthersInit

NextSingleton == GetRouter \/ UseRouter

SpecSingleton == InitSingleton /\ [][NextSingleton]_vars

\* ====================================================== claims: get_router
HasHandle(t) == threads[t].pc = "done"

\* C20: get_router returns the one global router instance: every call, first
\* calls made concurrently by several threads included, returns the same
\* MCPRouter object, so at most one router is ever created and a mark made
\* through one handle is visible to is_model_healthy through every other.
C20_OneRouter ==
  /\ Len(routers) <= 1
  /\ \A t \in Threads, u \in Threads :
       (HasHandle(t) /\ HasHandle(u)) => threads[t].handle = threads[u].handle
  /\ call.op = "is_model_healthy" =>
       \A u \in Threads :
         HasHandle(u) =>
           is_model_healthy(routers[threads[u].handle[1]], call.arg.model)
             = call.ret

\* ------------------------------- specification: repeated select_model calls
\* a caller selects again and again with the request it holds, while marks
\* and fallback queries arrive in between; each selection is recorded
MaxSelections == 2

ReselectRequests ==
  [content_len : {500}, task_type : TaskType, model : {None, GPT4},
   require_reasoning : BOOLEAN, require_creativity : BOOLEAN,
   max_tokens : {<<>>}]

SelectModelRecorded ==
  /\ Len(selections) < MaxSelections
  /\ LET selected == select_model(model_health, req)
     IN  /\ call' = [op |-> "select_model", arg |-> None, ret |-> selected]
         /\ selections' =
              Append(selections,
                     [ret |-> selected,
                      ret_healthy |-> is_model_healthy(model_health, selected),
                      override_healthy |->
                        /\ req.model # None
                        /\ is_model_healthy(model_health, req.model)])
  /\ UNCHANGED <<model_health, req, lastMark, stats_task, contexts,
                 router_instance, routers, threads, retry, agent, tasks>>

InitReselect ==
  /\ RouterInit
  /\ req \in ReselectRequests
  /\ call = NoCall
  /\ lastMark = NoHistory
  /\ OthersInit

NextReselect ==
  \/ MarkUnhealthy
  \/ MarkHealthy
  \/ GetFallback
  \/ SelectModelRecorded

SpecReselect == InitReselect /\ [][NextReselect]_vars

\* ================================================= claims: repeated selection
\* C21 as stated: two select_model calls with equal requests return the same
\* backend whatever calls and marks happened before (and so, with no
\* override, the same backend in every health state).
C21_AsStated ==
  \A i \in DOMAIN selections, j \in DOMAIN selections :
    selections[i].ret = selections[j].ret

\* C21 (amended): two select_model calls with equal requests return the same
\* backend whatever calls and marks happened before, provided the request's
\* override, if it has one, is as healthy at the second call as at the first;
\* with no override the result is the same in every health state, also after
\* the chosen backend was marked unhealthy.
C21_SameRequestSameBackend ==
  \A i \in DOMAIN selections, j \in DOMAIN selections :
    /\ selections[i].override_healthy = selections[j].override_healthy
         => selections[i].ret = selections[j].ret
    /\ req.model = None => selections[i].ret = selections[j].ret

\* a creative request with no override got GPT4 while it was healthy and
\* again after it was marked unhealthy
C21_Witness ==
  /\ req.model = None
  /\ req.require_creativity
  /\ Len(selections) = 2
  /\ selections[1].ret = GPT4
  /\ selections[1].ret_healthy
  /\ selections[2].ret = GPT4
  /\ ~selections[2].ret_healthy
  /\ call.op = "select_model"

\* ------------------------------------------- specification: a retry loop
\* a caller's loop over the router: try the current backend; when it fails,
\* mark_model_unhealthy(current), then current = get_fallback_model(current),
\* until that returns None.  The router is in any health state when the loop
\* starts; other callers may mark backends unhealthy while it runs, but none
\* marks a backend healthy.
MaxAttempts == 4

MarkHealthyBeforeRetry ==
  /\ retry.pc = "idle"
  /\ MarkHealthy

RetryStart(model) ==
  /\ retry.pc = "idle"
  /\ retry' = [retry EXCEPT
                 !.pc = "try", !.current = Some(model),
                 !.offered_healthy = is_model_healthy(model_health, model)]
  /\ UNCHANGED <<model_health, req, call, lastMark, stats_task, contexts,
                 router_instance, routers, threads, selections, agent, tasks>>

\* the attempt on the current backend, which fails
RetryAttempt ==
  /\ retry.pc = "try"
  /\ Len(retry.tried) < MaxAttempts
  /\ retry' = [retry EXCEPT
                 !.pc = "failed",
                 !.tried = Append(@, [model |-> retry.current[1],
                                      offered_healthy |-> retry.offered_healthy,
                                      healthy |-> is_model_healthy(
                                        model_health, retry.current[1])])]
  /\ UNCHANGED <<model_health, req, call, lastMark, stats_task, contexts,
                 router_instance, routers, threads, selections, agent, tasks>>

\* router.mark_model_unhealthy(current)
RetryMark ==
  /\ retry.pc = "failed"
  /\ model_health' = set_unhealthy(model_health, retry.current[1])
  /\ call' = [op |-> "mark_model_unhealthy", arg |-> retry.current[1],
              ret |-> None]
  /\ retry' = [retry EXCEPT !.pc = "marked"]
  /\ UNCHANGED <<req, lastMark, stats_task, contexts,
                 router_instance, routers, threads, selections, agent, tasks>>

\* current = router.get_fallback_model(current); None ends the loop
RetryFallback ==
  /\ retry.pc = "marked"
  /\ LET fallback == get_fallback_model(model_health, retry.current[1])
     IN  /\ call' = [op |-> "get_fallback_model", arg |-> retry.current[1],
                     ret |-> fallback]
         /\ retry' = IF fallback = None
                       THEN [retry EXCEPT !.pc = "done", !.current = Absent,
                                          !.fallback = fallback]
                     ELSE [retry EXCEPT
                            !.pc = "try", !.current = Some(fallback),
                            !.fallback = fallback,
                            !.offered_healthy =
                              is_model_healthy(model_health, fallback)]
  /\ UNCHANGED <<model_health, req, lastMark, stats_task, contexts,
                 router_instance, routers, threads, selections, agent, tasks>>

RetryBegin == \E m \in ModelType : RetryStart(m)

RetryStep == RetryAttempt \/ RetryMark \/ RetryFallback

InitRetry ==
  /\ RouterInit
  /\ req = DefaultRequest
  /\ call = NoCall
  /\ lastMark = NoHistory
  /\ OthersInit

NextRetry ==
  MarkUnhealthy \/ MarkHealthyBeforeRetry \/ RetryBegin \/ RetryStep

\* the loop is sequential code: once started it keeps running
SpecRetry == InitRetry /\ [][NextRetry]_vars /\ WF_vars(RetryStep)

\* ===================================================== claims: retry loop
NeverTwice ==
  \A i \in DOMAIN retry.tried, j \in DOMAIN retry.tried :
    i # j => retry.tried[i].model # retry.tried[j].model

EndsWithNone == retry.pc = "done" => retry.fallback = None

\* C22 as stated: the retry loop never tries the same backend twice, never
\* tries a backend that is marked unhealthy, and reaches the None result
\* after at most three attempted backends.
C22_AsStated ==
  /\ NeverTwice
  /\ \A i \in DOMAIN retry.tried : retry.tried[i].healthy
  /\ Len(retry.tried) <= 3
  /\ EndsWithNone

C22_Safe ==
  /\ NeverTwice
  /\ \A i \in DOMAIN retry.tried : i > 1 => retry.tried[i].offered_healthy
  /\ Len(retry.tried) <= 3
  /\ EndsWithNone

\* C22 (amended): the retry loop always terminates: it never tries the same
\* backend twice, never tries, after the backend it started at, a backend
\* that was marked unhealthy when get_fallback_model returned it, and reaches
\* the None (no fallback available) result after at most three attempted
\* backends.
C22_RetryTerminates ==
  /\ [](C22_Safe)
  /\ (retry.pc # "idle") ~> (retry.pc = "done")

\* started at GEMINI_PRO, the loop tried GPT4 and CLAUDE_3_OPUS and got None
C22_Witness ==
  /\ retry.pc = "done"
  /\ Len(retry.tried) = 3
  /\ retry.tried[1].model = GEMINI_PRO
  /\ retry.tried[2].model = GPT4
  /\ retry.tried[3].model = CLAUDE_3_OPUS
  /\ retry.fallback = None

\* ---------------------------------------- specification: `async with agent`
\* asyncio tasks share one BaseAgent.  __aenter__ and __aexit__ do not
\* suspend; the body of a block may, so other tasks run while a block is open.
\* Blocks nest up to MaxNest deep in one task.
MaxNest == 2

\* BaseAgent.initialize
initialize(a) == [a EXCEPT !.initialized = TRUE]

\* BaseAgent.cleanup
cleanup(a) == [a EXCEPT !.initialized = FALSE]

\* BaseAgent.get_status
get_status(a) ==
  [name |-> a.name, initialized |-> a.initialized,
   has_llm |-> a.llm_client # Absent]

\* the value __aexit__ returns: False, the exception is not suppressed
AEXIT_RETURN == FALSE

\* an exception unwinds a task's blocks without suspending: no other task
\* runs until it has left them all
Runnable(t) ==
  \A u \in Tasks \ {t} : ~(tasks[u].raising /\ tasks[u].depth > 0)

\* `async with agent:` entered by task t: __aenter__
AEnter(t) ==
  /\ Runnable(t)
  /\ ~tasks[t].raising
  /\ tasks[t].depth < MaxNest
  /\ agent' = initialize(agent)
  /\ tasks' = [tasks EXCEPT ![t].depth = @ + 1]
  /\ call' = [op |-> "__aenter__", arg |-> [task |-> t, exc |-> FALSE],
              ret |-> "self"]
  /\ UNCHANGED <<model_health, req, lastMark, stats_task, contexts,
                 router_instance, routers, threads, selections, retry>>

\* the body of task t's innermost block raises
Raise(t) ==
  /\ Runnable(t)
  /\ ~tasks[t].raising
  /\ tasks[t].depth > 0
  /\ tasks' = [tasks EXCEPT ![t].raising = TRUE]
  /\ UNCHANGED <<model_health, req, call, lastMark, stats_task, contexts,
                 router_instance, routers, threads, selections, retry, agent>>

\* task t leaves its innermost block, normally or with the exception in
\* flight: __aexit__; an exception that is not suppressed goes on outwards
AExit(t) ==
  /\ Runnable(t)
  /\ tasks[t].depth > 0
  /\ agent' = cleanup(agent)
  /\ tasks' = [tasks EXCEPT ![t].depth = @ - 1,
                            ![t].raising = @ /\ ~AEXIT_RETURN]
  /\ call' = [op |-> "__aexit__",
              arg |-> [task |-> t, exc |-> tasks[t].raising],
              ret |-> AEXIT_RETURN]
  /\ UNCHANGED <<model_health, req, lastMark, stats_task, contexts,
                 router_instance, routers, threads, selections, retry>>

\* agent.get_status(), called by a task that is not unwinding
GetStatus(t) ==
  /\ Runnable(t)
  /\ ~tasks[t].raising
  /\ call' = [op |-> "get_status", arg |-> [task |-> t, exc |-> FALSE],
              ret |-> get_status(agent).initialized]
  /\ UNCHANGED <<model_health, req, lastMark, stats_task, contexts,
                 router_instance, routers, threads, selections, retry,
                 agent, tasks>>

InitAgent ==
  /\ RouterInit
  /\ req = DefaultRequest
  /\ call = [op |-> "init", arg |-> [task |-> "a", exc |-> FALSE],
             ret |-> FALSE]
  /\ lastMark = NoHistory
  /\ OthersInit

NextAgent ==
  \E t \in Tasks : AEnter(t) \/ Raise(t) \/ AExit(t) \/ GetStatus(t)

SpecAgent == InitAgent /\ [][NextAgent]_vars

\* ========================================================== claims: agent
InsideBlock(t) == tasks[t].depth > 0

\* C23: while any task is inside an `async with agent:` block, get_status()
\* reports initialized = true, also when another task enters and leaves its
\* own block on the same agent meanwhile or the blocks are nested; after the
\* last block is left, normally or by an exception, initialized is false, and
\* the exception is propagated, not suppressed.
C23_InitializedWhileInside ==
  /\ call.op = "get_status" =>
       call.ret = (\E t \in Tasks : InsideBlock(t))
  /\ (call.op = "__aexit__" /\ call.arg.exc) =>
       (~call.ret /\ tasks[call.arg.task].raising)

====
